---- MODULE Spec2Model ----
(***************************************************************************)
(* Model of scrape_apihub_odata.py: the normaliser massage_result, the     *)
(* paginated query loop of scrape, the existence-check phase, the report,  *)
(* the mode-selected downstream action and the top-level error handler.    *)
(*                                                                         *)
(* Strings that the code takes apart (titles, dates, numbers, direction    *)
(* values) are sequences of one-character strings, so that formatting,     *)
(* parsing, the platform regex and str.replace are computed, not assumed.  *)
(* A Python dict is a function whose DOMAIN is its key set.                *)
(* The parsed response is taken to be the mapping that lines 218-219       *)
(* index: results['feed']['opensearch:totalResults'] and                   *)
(* results['feed'].get('entry'), the latter absent, one dict or a list.    *)
(***************************************************************************)
EXTENDS Integers, Sequences, FiniteSets, TLC

(***************************************************************************)
(* Bounds of the model.                                                    *)
(***************************************************************************)
\* the catalog returns at most this many entries in one run, over all pages
MaxEntries == 2

(***************************************************************************)
(* Program constants.                                                      *)
(***************************************************************************)
\* backoff.on_exception(..., max_tries=8, ...) on rhead
max_tries == 8
\* (orbitNumber-73)%175+1 and (orbitNumber-27)%175+1
S1A_OFFSET == 73
S1B_OFFSET == 27
CYCLE == 175

(***************************************************************************)
(* dict helpers                                                            *)
(***************************************************************************)
Put(d, k, v) == [x \in (DOMAIN d) \cup {k} |-> IF x = k THEN v ELSE d[x]]
Del(d, k) == [x \in (DOMAIN d) \ {k} |-> d[x]]
Has(d, k) == k \in DOMAIN d
EmptyDict == [x \in {} |-> 0]

\* outcome of a call that may raise
Ok(v) == [ok |-> TRUE, val |-> v]
Raise(e) == [ok |-> FALSE, err |-> e]

(***************************************************************************)
(* String literals of the source, as character sequences.                  *)
(***************************************************************************)
DESCENDING == <<"D","E","S","C","E","N","D","I","N","G">>
ASCENDING == <<"A","S","C","E","N","D","I","N","G">>
dsc == <<"d","s","c">>
asc == <<"a","s","c">>
odata == <<"o","d","a","t","a">>
AcqPrefix == <<"a","c","q","u","i","s","i","t","i","o","n","-">>
ZipSuffix == <<".","z","i","p">>
SentinelPrefix == <<"S","e","n","t","i","n","e","l","-","1">>
Sentinel1A == SentinelPrefix \o <<"A">>
Sentinel1B == SentinelPrefix \o <<"B">>

(***************************************************************************)
(* int(content): optional sign, then one or more decimal digits; anything  *)
(* else raises ValueError.                                                 *)
(***************************************************************************)
Digits == {"0","1","2","3","4","5","6","7","8","9"}
DigitVal(c) == CASE c = "0" -> 0 [] c = "1" -> 1 [] c = "2" -> 2 [] c = "3" -> 3
                 [] c = "4" -> 4 [] c = "5" -> 5 [] c = "6" -> 6 [] c = "7" -> 7
                 [] c = "8" -> 8 [] c = "9" -> 9

RECURSIVE DigitsValue(_, _)
DigitsValue(s, k) == IF k = 0 THEN 0 ELSE 10 * DigitsValue(s, k - 1) + DigitVal(s[k])

HasSign(s) == Len(s) > 0 /\ s[1] \in {"-", "+"}
Unsigned(s) == IF HasSign(s) THEN Tail(s) ELSE s
IsIntLiteral(s) ==
    /\ Len(Unsigned(s)) > 0
    /\ \A k \in 1..Len(Unsigned(s)) : Unsigned(s)[k] \in Digits
ParseInt(s) ==
    LET u == Unsigned(s)
        v == DigitsValue(u, Len(u))
    IN IF HasSign(s) /\ s[1] = "-" THEN 0 - v ELSE v

(***************************************************************************)
(* str.replace('Z', ''): every 'Z' is removed.                             *)
(***************************************************************************)
RECURSIVE ReplaceZ(_)
ReplaceZ(s) ==
    IF s = <<>> THEN <<>>
    ELSE IF Head(s) = "Z" THEN ReplaceZ(Tail(s)) ELSE <<Head(s)>> \o ReplaceZ(Tail(s))

(***************************************************************************)
(* PLATFORM_RE = re.compile(r'S1(.+?)_') ; PLATFORM_RE.search(title):      *)
(* leftmost "S1", then the shortest non-empty run followed by "_".         *)
(***************************************************************************)
MatchEnds(t, p) == {q \in (p + 3)..Len(t) : t[q] = "_"}
MatchStarts(t) ==
    {p \in 1..Len(t) : /\ p + 1 <= Len(t)
                       /\ t[p] = "S"
                       /\ t[p + 1] = "1"
                       /\ MatchEnds(t, p) # {}}
SetMin(S) == CHOOSE x \in S : \A y \in S : x <= y
SetMax(S) == CHOOSE x \in S : \A y \in S : x >= y
PlatformMatches(t) == MatchStarts(t) # {}
PlatformGroup(t) ==
    LET p == SetMin(MatchStarts(t))
        q == SetMin(MatchEnds(t, p))
    IN SubSeq(t, p + 2, q - 1)

(***************************************************************************)
(* shapely.wkt.loads(footprint) and the GeoJSON geometry / envelope.       *)
(* A footprint is <<"POLYGON", x1, y1, ..., xn, yn>> with the numbers as   *)
(* integers; loads raises unless it is a closed ring of at least 4 points. *)
(***************************************************************************)
WktCoords(w) == Tail(w)
WktPoint(w, k) == <<WktCoords(w)[2 * k - 1], WktCoords(w)[2 * k]>>
WktNPoints(w) == Len(WktCoords(w)) \div 2
WktValid(w) ==
    /\ Len(w) > 0
    /\ w[1] = "POLYGON"
    /\ Len(WktCoords(w)) % 2 = 0
    /\ WktNPoints(w) >= 4
    /\ WktPoint(w, 1) = WktPoint(w, WktNPoints(w))
WktRing(w) == [k \in 1..WktNPoints(w) |-> WktPoint(w, k)]
Location(w) == [type |-> "Polygon", coordinates |-> <<WktRing(w)>>]
Envelope(w) ==
    LET xs == {WktPoint(w, k)[1] : k \in 1..WktNPoints(w)}
        ys == {WktPoint(w, k)[2] : k \in 1..WktNPoints(w)}
    IN << <<SetMin(xs), SetMin(ys)>>, <<SetMax(xs), SetMin(ys)>>,
          <<SetMax(xs), SetMax(ys)>>, <<SetMin(xs), SetMax(ys)>>,
          <<SetMin(xs), SetMin(ys)>> >>

(***************************************************************************)
(* massage_result(res): the four field groups in the order int, link, str, *)
(* date, then the derived fields, the platform and the track check.  The   *)
(* result is Ok(the massaged dict) or Raise(the exception); a step takes   *)
(* the outcome so far and does nothing once an exception is on its way.    *)
(***************************************************************************)
IntTarget(name) ==
    IF name = "orbitnumber" THEN "orbitNumber"
    ELSE IF name = "relativeorbitnumber" THEN "trackNumber"
    ELSE name

RECURSIVE IntFields(_, _, _)
IntFields(res, items, k) ==
    IF k > Len(items) THEN Ok(res)
    ELSE IF ~IsIntLiteral(items[k].content) THEN Raise("ValueError")
    ELSE IntFields(Put(res, IntTarget(items[k].name), ParseInt(items[k].content)),
                   items, k + 1)

RECURSIVE LinkFields(_, _, _)
LinkFields(res, items, k) ==
    IF k > Len(items) THEN res
    ELSE LinkFields(IF Has(items[k], "rel")
                    THEN Put(res, items[k].rel, items[k].href)
                    ELSE Put(res, "download_url", items[k].href),
                    items, k + 1)

Direction(content) ==
    IF content = DESCENDING THEN Ok(dsc)
    ELSE IF content = ASCENDING THEN Ok(asc)
    ELSE Raise("RuntimeError: Failed to recognize orbit direction")

RECURSIVE StrFields(_, _, _)
StrFields(res, items, k) ==
    IF k > Len(items) THEN Ok(res)
    ELSE IF items[k].name = "orbitdirection"
         THEN IF Direction(items[k].content).ok
              THEN StrFields(Put(res, "direction", Direction(items[k].content).val),
                             items, k + 1)
              ELSE Direction(items[k].content)
    ELSE IF items[k].name = "endposition"
         THEN StrFields(Put(res, "sensingStop", items[k].content), items, k + 1)
    ELSE StrFields(Put(res, items[k].name, items[k].content), items, k + 1)

RECURSIVE DateFields(_, _, _)
DateFields(res, items, k) ==
    IF k > Len(items) THEN res
    ELSE IF items[k].name = "beginposition"
         THEN DateFields(Put(res, "sensingStart", ReplaceZ(items[k].content)), items, k + 1)
    ELSE IF items[k].name = "endposition"
         THEN DateFields(Put(res, "sensingStop", ReplaceZ(items[k].content)), items, k + 1)
    ELSE DateFields(Put(res, items[k].name, items[k].content), items, k + 1)

\* lines 70-75
SetInts(r) ==
    IF ~r.ok THEN r
    ELSE IF ~Has(r.val, "int") THEN Raise("KeyError: int")
    ELSE IF ~IntFields(r.val, r.val["int"], 1).ok THEN IntFields(r.val, r.val["int"], 1)
    ELSE Ok(Del(IntFields(r.val, r.val["int"], 1).val, "int"))

\* lines 77-83
SetLinks(r) ==
    IF ~r.ok THEN r
    ELSE IF ~Has(r.val, "link") THEN Raise("KeyError: link")
    ELSE Ok(Del(LinkFields(r.val, r.val["link"], 1), "link"))

\* lines 85-93
SetStrs(r) ==
    IF ~r.ok THEN r
    ELSE IF ~Has(r.val, "str") THEN Raise("KeyError: str")
    ELSE IF ~StrFields(r.val, r.val["str"], 1).ok THEN StrFields(r.val, r.val["str"], 1)
    ELSE Ok(Del(StrFields(r.val, r.val["str"], 1).val, "str"))

\* lines 95-100
SetDates(r) ==
    IF ~r.ok THEN r
    ELSE IF ~Has(r.val, "date") THEN Raise("KeyError: date")
    ELSE Ok(Del(DateFields(r.val, r.val["date"], 1), "date"))

\* lines 102-104
SetNames(r) ==
    IF ~r.ok THEN r
    ELSE IF ~Has(r.val, "title") THEN Raise("KeyError: title")
    ELSE Ok(Put(Put(r.val, "data_product_name", AcqPrefix \o r.val["title"]),
                "archive_filename", r.val["title"] \o ZipSuffix))

\* lines 106-109
SetFootprint(r) ==
    IF ~r.ok THEN r
    ELSE IF ~Has(r.val, "footprint") THEN Raise("KeyError: footprint")
    ELSE IF ~WktValid(r.val["footprint"]) THEN Raise("WKTReadingError")
    ELSE Ok(Put(Put(r.val, "location", Location(r.val["footprint"])),
                "bbox", Envelope(r.val["footprint"])))

\* lines 111-115
SetPlatform(r) ==
    IF ~r.ok THEN r
    ELSE IF ~PlatformMatches(r.val["title"])
    THEN Raise("RuntimeError: Failed to extract iplatform")
    ELSE Ok(Put(r.val, "platform", SentinelPrefix \o PlatformGroup(r.val["title"])))

TrackOf(orbitNumber, offset) == ((orbitNumber - offset) % CYCLE) + 1

\* lines 117-123
VerifyTrackNoCheck(r) == r
VerifyTrack(r) ==
    IF ~r.ok THEN r
    ELSE IF r.val["platform"] \in {Sentinel1A, Sentinel1B}
            /\ ~(Has(r.val, "trackNumber") /\ Has(r.val, "orbitNumber"))
    THEN Raise("KeyError: trackNumber/orbitNumber")
    ELSE IF r.val["platform"] = Sentinel1A
            /\ r.val["trackNumber"] # TrackOf(r.val["orbitNumber"], S1A_OFFSET)
    THEN Raise("RuntimeError: Failed to verify S1A relative orbit number and track number.")
    ELSE IF r.val["platform"] = Sentinel1B
            /\ r.val["trackNumber"] # TrackOf(r.val["orbitNumber"], S1B_OFFSET)
    THEN Raise("RuntimeError: Failed to verify S1B relative orbit number and track number.")
    ELSE r

massage_result(res) ==
    VerifyTrack(SetPlatform(SetFootprint(SetNames(SetDates(SetStrs(SetLinks(
        SetInts(Ok(res)))))))))

(***************************************************************************)
(* get_dataset_json(met, version): a missing key raises KeyError.          *)
(***************************************************************************)
DatasetKeys == {"data_product_name", "location", "sensingStart", "sensingStop"}
Version == <<"v","1",".","1">>
get_dataset_json(met, version) ==
    IF ~(DatasetKeys \subseteq DOMAIN met) THEN Raise("KeyError: dataset")
    ELSE Ok([version |-> version,
             label |-> met["data_product_name"],
             location |-> met["location"],
             starttime |-> met["sensingStart"],
             endtime |-> met["sensingStop"]])

(***************************************************************************)
(* sorted(prods_missing): byte-wise comparison of the identifiers.         *)
(***************************************************************************)
CharOrder ==
    <<"-", ".", "0", "1", "2", "3", "4", "5", "6", "7", "8", "9",
      "A", "B", "C", "D", "E", "F", "G", "H", "I", "J", "K", "L", "M",
      "N", "O", "P", "Q", "R", "S", "T", "U", "V", "W", "X", "Y", "Z", "_",
      "a", "b", "c", "d", "e", "f", "g", "h", "i", "j", "k", "l", "m",
      "n", "o", "p", "q", "r", "s", "t", "u", "v", "w", "x", "y", "z">>
Ord(c) == CHOOSE k \in 1..Len(CharOrder) : CharOrder[k] = c

RECURSIVE StrLess(_, _)
StrLess(a, b) ==
    IF b = <<>> THEN FALSE
    ELSE IF a = <<>> THEN TRUE
    ELSE IF Head(a) = Head(b) THEN StrLess(Tail(a), Tail(b))
    ELSE Ord(Head(a)) < Ord(Head(b))

RECURSIVE Insert(_, _)
Insert(x, sorted) ==
    IF sorted = <<>> THEN <<x>>
    ELSE IF StrLess(Head(sorted), x) THEN <<Head(sorted)>> \o Insert(x, Tail(sorted))
    ELSE <<x>> \o sorted

RECURSIVE Sorted(_)
Sorted(s) == IF s = <<>> THEN <<>> ELSE Insert(Head(s), Sorted(Tail(s)))

(***************************************************************************)
(* The catalog entries the model's catalog can serve.  Each is a raw entry *)
(* as the feed gives it: a title and the int, link, str and date groups.   *)
(***************************************************************************)
Num(orbit, track) ==
    <<[name |-> "orbitnumber", content |-> orbit],
      [name |-> "relativeorbitnumber", content |-> track]>>
Links ==
    <<[href |-> <<"u","0">>],
      [rel |-> "alternative", href |-> <<"u","1">>],
      [rel |-> "icon", href |-> <<"u","2">>]>>
Square == <<"POLYGON", 0, 0, 2, 0, 2, 1, 0, 1, 0, 0>>
Wedge == <<"POLYGON", 5, 5, 9, 6, 7, 8, 5, 5>>
Strs(direction, footprint) ==
    <<[name |-> "orbitdirection", content |-> direction],
      [name |-> "footprint", content |-> footprint],
      [name |-> "producttype", content |-> <<"S","L","C">>]>>
StrsNoDirection(footprint) ==
    <<[name |-> "footprint", content |-> footprint],
      [name |-> "producttype", content |-> <<"S","L","C">>]>>
Dates(begin, end) ==
    <<[name |-> "beginposition", content |-> begin],
      [name |-> "endposition", content |-> end],
      [name |-> "ingestiondate", content |-> <<"T","9","Z">>]>>
RawEntry(title, ints, strs, dates) ==
    [title |-> title, int |-> ints, link |-> Links, str |-> strs, date |-> dates]

T1 == <<"T","1","Z">>
T2 == <<"T","2","Z">>
T3 == <<"T","3","Z">>

\* Sentinel-1A, orbit 73, track 1
EntryA == RawEntry(<<"S","1","A","_","a">>, Num(<<"7","3">>, <<"1">>),
                   Strs(ASCENDING, Square), Dates(T1, T2))
\* the same title again, with another orbit (below the offset) and track, and
\* no orbitdirection among the string fields
EntryA2 == RawEntry(<<"S","1","A","_","a">>, Num(<<"5">>, <<"1","0","8">>),
                    StrsNoDirection(Wedge), Dates(T2, T3))
\* Sentinel-1B, orbit 28, track 2
EntryB == RawEntry(<<"S","1","B","_","b">>, Num(<<"2","8">>, <<"2">>),
                   Strs(DESCENDING, Square), Dates(T1, T2))
\* another platform: the track obeys neither formula
EntryC == RawEntry(<<"S","1","C","_","c">>, Num(<<"2","8">>, <<"9">>),
                   Strs(ASCENDING, Wedge), Dates(T1, T3))
\* Sentinel-1A and Sentinel-1B with a track that contradicts the orbit
EntryBadA == RawEntry(<<"S","1","A","_","w">>, Num(<<"7","3">>, <<"2">>),
                      Strs(ASCENDING, Square), Dates(T1, T2))
EntryBadB == RawEntry(<<"S","1","B","_","w">>, Num(<<"2","7">>, <<"1","7","5">>),
                      Strs(DESCENDING, Square), Dates(T1, T2))
\* a third orbit direction
EntryBadDir == RawEntry(<<"S","1","A","_","d">>, Num(<<"7","3">>, <<"1">>),
                        Strs(<<"U","P">>, Square), Dates(T1, T2))
\* a title the platform regex does not match
EntryNoPlatform == RawEntry(<<"S","2","A","_","p">>, Num(<<"7","3">>, <<"1">>),
                            Strs(ASCENDING, Square), Dates(T1, T2))
\* another platform without relativeorbitnumber: massage_result returns, and
\* met['trackNumber'] raises KeyError at the bucket append
EntryNoTrack == RawEntry(<<"S","1","C","_","t">>,
                         <<[name |-> "orbitnumber", content |-> <<"2","8">>]>>,
                         Strs(ASCENDING, Square), Dates(T1, T2))

\* no beginposition among the date fields: get_dataset_json raises KeyError
EntryNoBegin == RawEntry(<<"S","1","B","_","g">>, Num(<<"2","8">>, <<"2">>),
                         Strs(DESCENDING, Square),
                         <<[name |-> "endposition", content |-> T2]>>)

GoodEntries == {EntryA, EntryA2, EntryB, EntryC}
BadEntries == {EntryBadA, EntryBadB, EntryBadDir, EntryNoPlatform, EntryNoTrack,
               EntryNoBegin}
Catalog == GoodEntries \cup BadEntries

(***************************************************************************)
(* What the two remote services can answer.                                *)
(***************************************************************************)
\* opensearch:totalResults of a page, as the text the feed carries
Totals == {<<"0">>, <<"7">>}
\* statuses of a catalog page for which raise_for_status() raises
PageErrorStatuses == {500}
\* statuses of an existence probe other than 200 and 404
ProbeOtherStatuses == {301, 500}
AbsentEntry == [kind |-> "absent"]
LoneEntry(e) == [kind |-> "dict", obj |-> e]
ListEntry(es) == [kind |-> "list", items |-> es]
SeqsUpTo(S, n) == UNION {[1..k -> S] : k \in 0..n}
\* Response.raise_for_status(): raises for 4xx and 5xx only
RaisesForStatus(status) == 400 <= status /\ status < 600

None == <<>>
Some(v) == <<v>>

VARIABLES
    pc,                     \* where the run is
    ingest_missing,         \* scrape(..., ingest_missing=, create_only=)
    create_only,
    prods_all,              \* identifier -> [met, ds]
    ids_by_track,           \* trackNumber -> list of identifiers
    offset,
    loop,
    total_results_expected, \* None or Some(n)
    raw_entries,            \* results['feed'].get('entry') of the page in progress
    entries,                \* the page being processed, as a list
    idx,                    \* position of the for loop in entries
    todo,                   \* keys of prods_all the iteritems() loop has not reached
    acq_id,                 \* the identifier being probed
    tries,                  \* failed attempts of the current rhead call
    prods_found,
    prods_missing,
    report,                 \* None or Some(the figures of msg)
    k,                      \* position of the create / ingest loop in prods_missing
    created,                \* identifiers create_acq_dataset has written, in order
    ingested,               \* identifiers handed to ingest(), in order
    err,                    \* None or Some(the exception raised out of scrape)
    errlog,                 \* lines appended to _alt_error.txt / _alt_traceback.txt
    requests,               \* history: the $skip of every page request issued
    pages,                  \* history: the entry count of every page received
    probes,                 \* history: identifiers whose probe returned a response
    sleeps,                 \* history: number of time.sleep(3) calls
    page_start              \* history: accumulator and offset before the page in progress

vars == <<pc, ingest_missing, create_only, prods_all, ids_by_track, offset, loop,
          total_results_expected, raw_entries, entries, idx, todo, acq_id, tries,
          prods_found, prods_missing, report, k, created, ingested, err, errlog,
          requests, pages, probes, sleeps, page_start>>

queryVars == <<offset, loop, total_results_expected, raw_entries, entries, idx>>
accVars == <<prods_all, ids_by_track>>
existsVars == <<todo, acq_id, tries, prods_found, prods_missing>>
outVars == <<report, k, created, ingested>>
histVars == <<requests, pages, probes, sleeps, page_start>>
flagVars == <<ingest_missing, create_only>>

\* the accumulator and offset as a page is received; none between pages
NoSnapshot == <<>>
Snapshot == <<[prods_all |-> prods_all, ids_by_track |-> ids_by_track, offset |-> offset]>>

\* lines 190-202
Init ==
    /\ pc = "query"
    /\ ingest_missing \in BOOLEAN
    /\ create_only \in BOOLEAN
    /\ prods_all = EmptyDict
    /\ ids_by_track = EmptyDict
    /\ offset = 0
    /\ loop = TRUE
    /\ total_results_expected = None
    /\ raw_entries = AbsentEntry
    /\ entries = <<>>
    /\ idx = 1
    /\ todo = {}
    /\ acq_id = None
    /\ tries = 0
    /\ prods_found = <<>>
    /\ prods_missing = <<>>
    /\ report = None
    /\ k = 1
    /\ created = <<>>
    /\ ingested = <<>>
    /\ err = None
    /\ errlog = [error |-> <<>>, traceback |-> <<>>]
    /\ requests = <<>>
    /\ pages = <<>>
    /\ probes = <<>>
    /\ sleeps = 0
    /\ page_start = NoSnapshot

\* an exception leaves scrape
Raised(e) ==
    /\ pc' = "raised"
    /\ err' = Some(e)

\* lines 246-249: the existence phase starts; the for loop ends at once on an empty dict
EnterExists ==
    /\ todo' = DOMAIN prods_all
    /\ pc' = IF DOMAIN prods_all = {} THEN "report" ELSE "exists"

(***************************************************************************)
(* The query loop, lines 203-244.                                          *)
(***************************************************************************)
\* line 223: if isinstance(entries, dict): entries = [ entries ]
AsListDropsLone(raw) == IF raw.kind = "dict" THEN <<>> ELSE raw.items
AsList(raw) == IF raw.kind = "dict" THEN <<raw.obj>> ELSE raw.items

\* line 226: loop = True if count > 0 else False
LoopWhileFull(count) == count > 1
LoopContinues(count) == count > 0

\* lines 217-218
TotalAfterAlways(expected, total) == Some(ParseInt(total))
TotalAfter(expected, total) == IF expected = None THEN Some(ParseInt(total)) ELSE expected

\* lines 206-210: the request is sent with $skip = offset
SendQueryByPage ==
    /\ pc = "query"
    /\ requests' = Append(requests, Len(requests))
SendQuery ==
    /\ pc = "query"
    /\ requests' = Append(requests, offset)

\* line 210: session.get raises (no retry wraps it)
QueryTransportError ==
    /\ SendQuery
    /\ Raised("ConnectionError")
    /\ UNCHANGED <<flagVars, accVars, queryVars, existsVars, outVars, errlog,
                   pages, probes, sleeps, page_start>>

\* lines 212-214 with the request sent again in place of raise_for_status()
QueryHTTPErrorRetried ==
    /\ SendQuery
    /\ \E status \in PageErrorStatuses : RaisesForStatus(status)
    /\ UNCHANGED <<flagVars, accVars, queryVars, existsVars, outVars, pc, err, errlog,
                   pages, probes, sleeps, page_start>>

\* lines 212-214: response.raise_for_status() raises
QueryHTTPError ==
    /\ SendQuery
    /\ \E status \in PageErrorStatuses :
          /\ RaisesForStatus(status)
          /\ Raised("HTTPError " \o ToString(status))
    /\ UNCHANGED <<flagVars, accVars, queryVars, existsVars, outVars, errlog,
                   pages, probes, sleeps, page_start>>

\* lines 215-220: the feed has no 'entry': break
QueryNoEntry ==
    /\ SendQuery
    /\ \E total \in Totals :
          total_results_expected' = TotalAfter(total_results_expected, total)
    /\ raw_entries' = AbsentEntry
    /\ pages' = Append(pages, 0)
    /\ EnterExists
    /\ UNCHANGED <<flagVars, accVars, offset, loop, entries, idx, acq_id, tries,
                   prods_found, prods_missing, outVars, err, errlog, probes, sleeps,
                   page_start>>

\* lines 215-227: the feed has an 'entry', a lone object or a list
QueryEntries ==
    /\ SendQuery
    /\ \E total \in Totals :
          total_results_expected' = TotalAfter(total_results_expected, total)
    /\ \E raw \in {LoneEntry(e) : e \in Catalog}
                    \cup {ListEntry(es) : es \in SeqsUpTo(Catalog, MaxEntries - offset)} :
          /\ offset + Len(AsList(raw)) <= MaxEntries
          /\ raw_entries' = raw
          /\ entries' = AsList(raw)
          /\ offset' = offset + Len(AsList(raw))
          /\ loop' = LoopContinues(Len(AsList(raw)))
          /\ pages' = Append(pages, Len(AsList(raw)))
          /\ pc' = IF Len(AsList(raw)) > 0 THEN "massage" ELSE "sleep"
    /\ idx' = 1
    /\ page_start' = Snapshot
    /\ UNCHANGED <<flagVars, accVars, existsVars, outVars, err, errlog, probes, sleeps>>

\* the entry the for loop of line 228 is at
Met == entries[idx]
Identifier(met) == met["data_product_name"]

\* lines 229-233 with "continue" in place of "raise": the entry is skipped
NormalizeSkips ==
    /\ pc = "massage"
    /\ ~massage_result(Met).ok
    /\ idx' = idx + 1
    /\ pc' = IF idx = Len(entries) THEN "sleep" ELSE "massage"
    /\ UNCHANGED <<flagVars, accVars, offset, loop, total_results_expected, raw_entries,
                   entries, existsVars, outVars, err, errlog, histVars>>

\* lines 229-233: massage_result raises; the exception is logged and re-raised.
\* (The entry stays as received: what massage_result had changed in place
\* before it raised is only written to the log.)
NormalizeFails ==
    /\ pc = "massage"
    /\ ~massage_result(Met).ok
    /\ Raised(massage_result(Met).err)
    /\ UNCHANGED <<flagVars, accVars, queryVars, existsVars, outVars, errlog, histVars>>

\* line 235: get_dataset_json raises KeyError
DatasetJsonFails ==
    /\ pc = "massage"
    /\ massage_result(Met).ok
    /\ ~get_dataset_json(massage_result(Met).val, Version).ok
    /\ Raised(get_dataset_json(massage_result(Met).val, Version).err)
    /\ entries' = [entries EXCEPT ![idx] = massage_result(Met).val]
    /\ UNCHANGED <<flagVars, accVars, offset, loop, total_results_expected, raw_entries,
                   idx, existsVars, outVars, errlog, histVars>>

\* lines 237-240: prods_all[met['data_product_name']] = {'met': met, 'ds': ds}
InsertKeepFirst(all, met, ds) ==
    IF Has(all, Identifier(met)) THEN all
    ELSE Put(all, Identifier(met), [met |-> met, ds |-> ds])
InsertProd(all, met, ds) == Put(all, Identifier(met), [met |-> met, ds |-> ds])

\* line 241: ids_by_track.setdefault(met['trackNumber'], []).append(...)
AppendTrackOnce(by_track, met) ==
    IF \E t \in DOMAIN by_track : \E i \in 1..Len(by_track[t]) :
            by_track[t][i] = Identifier(met)
    THEN by_track
    ELSE Put(by_track, met["trackNumber"],
             (IF Has(by_track, met["trackNumber"]) THEN by_track[met["trackNumber"]]
              ELSE <<>>) \o <<Identifier(met)>>)
AppendTrack(by_track, met) ==
    Put(by_track, met["trackNumber"],
        (IF Has(by_track, met["trackNumber"]) THEN by_track[met["trackNumber"]] ELSE <<>>)
            \o <<Identifier(met)>>)

\* lines 229-241 for an entry that normalizes
Accumulate ==
    /\ pc = "massage"
    /\ massage_result(Met).ok
    /\ LET met == massage_result(Met).val
           ds == get_dataset_json(met, Version)
       IN /\ ds.ok
          /\ Has(met, "trackNumber")
          /\ entries' = [entries EXCEPT ![idx] = met]
          /\ prods_all' = InsertProd(prods_all, met, ds.val)
          /\ ids_by_track' = AppendTrack(ids_by_track, met)
    /\ idx' = idx + 1
    /\ pc' = IF idx = Len(entries) THEN "sleep" ELSE "massage"
    /\ UNCHANGED <<flagVars, offset, loop, total_results_expected, raw_entries,
                   existsVars, outVars, err, errlog, histVars>>

\* lines 237-241 for an entry without trackNumber: inserted, then KeyError
TrackKeyFails ==
    /\ pc = "massage"
    /\ massage_result(Met).ok
    /\ LET met == massage_result(Met).val
           ds == get_dataset_json(met, Version)
       IN /\ ds.ok
          /\ ~Has(met, "trackNumber")
          /\ entries' = [entries EXCEPT ![idx] = met]
          /\ prods_all' = InsertProd(prods_all, met, ds.val)
    /\ Raised("KeyError: trackNumber")
    /\ UNCHANGED <<flagVars, ids_by_track, offset, loop, total_results_expected,
                   raw_entries, idx, existsVars, outVars, errlog, histVars>>

\* the while test of line 203 without the time.sleep(3) of line 244
SleepSkipped ==
    /\ pc = "sleep"
    /\ IF loop
       THEN /\ pc' = "query"
            /\ UNCHANGED todo
       ELSE EnterExists
    /\ raw_entries' = AbsentEntry
    /\ page_start' = NoSnapshot
    /\ UNCHANGED <<flagVars, accVars, offset, loop, total_results_expected, entries, idx,
                   acq_id, tries, prods_found, prods_missing, outVars, err, errlog,
                   requests, pages, probes, sleeps>>

\* lines 243-244, then the while test of line 203; the page is done with
Sleep ==
    /\ pc = "sleep"
    /\ sleeps' = sleeps + 1
    /\ IF loop
       THEN /\ pc' = "query"
            /\ UNCHANGED todo
       ELSE EnterExists
    /\ raw_entries' = AbsentEntry
    /\ page_start' = NoSnapshot
    /\ UNCHANGED <<flagVars, accVars, offset, loop, total_results_expected, entries, idx,
                   acq_id, tries, prods_found, prods_missing, outVars, err, errlog,
                   requests, pages, probes>>

(***************************************************************************)
(* The existence phase, lines 246-257.  iteritems() visits every key once, *)
(* in an order the dict decides.                                           *)
(***************************************************************************)
\* the identifier the probe is for: the one being retried, or the next key
Probing(id) ==
    /\ pc = "exists"
    /\ id \in todo
    /\ tries > 0 => acq_id = Some(id)

\* the for loop moves past id
ProbeDone(id) ==
    /\ acq_id' = Some(id)
    /\ tries' = 0
    /\ todo' = todo \ {id}
    /\ probes' = Append(probes, id)

AfterProbe(id) == IF todo \ {id} = {} THEN "report" ELSE "exists"

\* lines 180-183 with max_tries counting the retries, not the attempts
ProbeTransportErrorNineTries ==
    /\ \E id \in todo :
          /\ Probing(id)
          /\ acq_id' = Some(id)
    /\ IF tries < max_tries
       THEN /\ tries' = tries + 1
            /\ UNCHANGED <<pc, err>>
       ELSE /\ tries' = tries + 1
            /\ Raised("RequestException")
    /\ UNCHANGED <<flagVars, accVars, queryVars, todo, prods_found, prods_missing,
                   outVars, errlog, histVars>>

\* lines 180-183: requests.head raises RequestException; backoff retries until
\* max_tries attempts have been made, then lets the exception through
ProbeTransportError ==
    /\ \E id \in todo :
          /\ Probing(id)
          /\ acq_id' = Some(id)
    /\ IF tries + 1 < max_tries
       THEN /\ tries' = tries + 1
            /\ UNCHANGED <<pc, err>>
       ELSE /\ tries' = tries + 1
            /\ Raised("RequestException")
    /\ UNCHANGED <<flagVars, accVars, queryVars, todo, prods_found, prods_missing,
                   outVars, errlog, histVars>>

\* lines 251-252
ProbeFound ==
    /\ \E id \in todo :
          /\ Probing(id)
          /\ ProbeDone(id)
          /\ prods_found' = Append(prods_found, id)
          /\ pc' = AfterProbe(id)
    /\ UNCHANGED <<flagVars, accVars, queryVars, prods_missing, outVars, err, errlog,
                   requests, pages, sleeps, page_start>>

\* lines 253-255
ProbeMissing ==
    /\ \E id \in todo :
          /\ Probing(id)
          /\ ProbeDone(id)
          /\ prods_missing' = Append(prods_missing, id)
          /\ pc' = AfterProbe(id)
    /\ UNCHANGED <<flagVars, accVars, queryVars, prods_found, outVars, err, errlog,
                   requests, pages, sleeps, page_start>>

\* lines 256-257: else: r.raise_for_status(), which raises for 4xx and 5xx only
OtherStatusRaises(status) == RaisesForStatus(status)

ProbeOther ==
    /\ \E id \in todo, status \in ProbeOtherStatuses :
          /\ Probing(id)
          /\ ProbeDone(id)
          /\ IF OtherStatusRaises(status)
             THEN Raised("HTTPError " \o ToString(status))
             ELSE /\ pc' = AfterProbe(id)
                  /\ UNCHANGED err
    /\ UNCHANGED <<flagVars, accVars, queryVars, prods_found, prods_missing, outVars,
                   errlog, requests, pages, sleeps, page_start>>

(***************************************************************************)
(* The report, lines 259-276.                                              *)
(***************************************************************************)
ReportOf(all, by_track, missing) ==
    [total_on_apihub |-> Cardinality(DOMAIN all),
     missing_products |-> Len(missing),
     count_by_track |-> [t \in DOMAIN by_track |-> Len(by_track[t])],
     missing_ids |-> Sorted(missing)]

\* lines 259-276 with prods_missing.sort() in place of sorted(prods_missing)
ReportSortsInPlace ==
    /\ pc = "report"
    /\ report' = Some(ReportOf(prods_all, ids_by_track, prods_missing))
    /\ prods_missing' = Sorted(prods_missing)
    /\ pc' = "options"
    /\ UNCHANGED <<flagVars, accVars, queryVars, todo, acq_id, tries, prods_found,
                   k, created, ingested, err, errlog, histVars>>

\* lines 259-276: the report is logged; sorted() works on a copy
Report ==
    /\ pc = "report"
    /\ report' = Some(ReportOf(prods_all, ids_by_track, prods_missing))
    /\ pc' = "options"
    /\ UNCHANGED <<flagVars, accVars, queryVars, existsVars, k, created, ingested,
                   err, errlog, histVars>>

(***************************************************************************)
(* The downstream action, lines 278-294.                                   *)
(***************************************************************************)
\* lines 279-280
OptionsConflict ==
    /\ pc = "options"
    /\ ingest_missing /\ create_only
    /\ Raised("RuntimeError: Cannot specify ingest_missing=True and create_only=True.")
    /\ UNCHANGED <<flagVars, accVars, queryVars, existsVars, outVars, errlog, histVars>>

\* lines 283 and 290: which loop runs, if any
ModeIngestsBoth(ingest, create) ==
    IF ingest \/ create THEN "ingest" ELSE "done"
Mode(ingest, create) ==
    IF ingest /\ ~create THEN "ingest"
    ELSE IF ~ingest /\ create THEN "create"
    ELSE "done"

SelectMode ==
    /\ pc = "options"
    /\ ~(ingest_missing /\ create_only)
    /\ pc' = IF prods_missing = <<>> THEN "done" ELSE Mode(ingest_missing, create_only)
    /\ k' = 1
    /\ UNCHANGED <<flagVars, accVars, queryVars, existsVars, report, created, ingested,
                   err, errlog, histVars>>

\* line 148: create_acq_dataset appends the source to met, in place
WithQueryApi(all, id) == [all EXCEPT ![id].met = Put(@, "query_api", odata)]

AfterItem == IF k = Len(prods_missing) THEN "done" ELSE pc

\* lines 291-294: one iteration of the create-only loop
CreateOne ==
    /\ pc = "create"
    /\ prods_all' = WithQueryApi(prods_all, prods_missing[k])
    /\ created' = Append(created, prods_missing[k])
    /\ k' = k + 1
    /\ pc' = AfterItem
    /\ UNCHANGED <<flagVars, ids_by_track, queryVars, existsVars, report, ingested,
                   err, errlog, histVars>>

\* lines 284-287 with 171-177: one iteration of the ingest loop
IngestOne ==
    /\ pc = "ingest"
    /\ prods_all' = WithQueryApi(prods_all, prods_missing[k])
    /\ created' = Append(created, prods_missing[k])
    /\ ingested' = Append(ingested, prods_missing[k])
    /\ k' = k + 1
    /\ pc' = AfterItem
    /\ UNCHANGED <<flagVars, ids_by_track, queryVars, existsVars, report, err, errlog,
                   histVars>>

\* lines 145-156: makedirs or open raises while the artifact is written
CreateFails ==
    /\ pc \in {"create", "ingest"}
    /\ Raised("IOError")
    /\ UNCHANGED <<flagVars, accVars, queryVars, existsVars, outVars, errlog, histVars>>

\* line 176: ingest raises after the artifact was written
IngestFails ==
    /\ pc = "ingest"
    /\ prods_all' = WithQueryApi(prods_all, prods_missing[k])
    /\ created' = Append(created, prods_missing[k])
    /\ Raised("IngestError")
    /\ UNCHANGED <<flagVars, ids_by_track, queryVars, existsVars, report, k, ingested,
                   errlog, histVars>>

(***************************************************************************)
(* The top level, lines 325-334.                                           *)
(***************************************************************************)
\* lines 329-334 without the raise of line 334: the error is logged and dropped
MainExceptSwallows ==
    /\ pc = "raised"
    /\ errlog' = [error |-> Append(errlog.error, err[1]),
                  traceback |-> Append(errlog.traceback, err[1])]
    /\ pc' = "done"
    /\ UNCHANGED <<flagVars, accVars, queryVars, existsVars, outVars, err, histVars>>

\* lines 329-334: str(e) and the traceback are appended to the two files, then raise
MainExcept ==
    /\ pc = "raised"
    /\ errlog' = [error |-> Append(errlog.error, err[1]),
                  traceback |-> Append(errlog.traceback, err[1])]
    /\ pc' = "failed"
    /\ UNCHANGED <<flagVars, accVars, queryVars, existsVars, outVars, err, histVars>>

Next ==
    \/ QueryTransportError
    \/ QueryHTTPError
    \/ QueryNoEntry
    \/ QueryEntries
    \/ NormalizeFails
    \/ DatasetJsonFails
    \/ Accumulate
    \/ TrackKeyFails
    \/ Sleep
    \/ ProbeTransportError
    \/ ProbeFound
    \/ ProbeMissing
    \/ ProbeOther
    \/ Report
    \/ OptionsConflict
    \/ SelectMode
    \/ CreateOne
    \/ IngestOne
    \/ CreateFails
    \/ IngestFails
    \/ MainExcept

Spec == Init /\ [][Next]_vars

(***************************************************************************)
(* Vocabulary of the claims.                                               *)
(***************************************************************************)
RECURSIVE SumSeq(_)
SumSeq(s) == IF s = <<>> THEN 0 ELSE Head(s) + SumSeq(Tail(s))

Last(s) == s[Len(s)]
Range(s) == {s[i] : i \in 1..Len(s)}
IsPrefix(s, t) == Len(s) <= Len(t) /\ s = SubSeq(t, 1, Len(s))

\* the while loop of line 203 has been left without an exception
LoopEnded == pc \in {"exists", "report", "options", "create", "ingest", "done"}

\* how often an identifier was appended to the track buckets
Count(id, s) == Cardinality({i \in 1..Len(s) : s[i] = id})
\* all the buckets of ids_by_track, one after the other
RECURSIVE BucketsOf(_)
BucketsOf(tracks) ==
    IF tracks = {} THEN <<>>
    ELSE LET t == CHOOSE x \in tracks : TRUE
         IN ids_by_track[t] \o BucketsOf(tracks \ {t})
AllBuckets == BucketsOf(DOMAIN ids_by_track)
Occurrences(id) == Count(id, AllBuckets)
NoRepeatedIdentifier == \A id \in DOMAIN prods_all : Occurrences(id) = 1

(***************************************************************************)
(* C1: the query loop stops after the first page with zero entries and at  *)
(* no earlier page: every page before the last one received is non-empty,  *)
(* after a page the loop continues exactly when the page had entries, the  *)
(* loop is only left behind an empty page, the number of requests then     *)
(* equals the position of that page, and when no identifier repeated the   *)
(* accumulator holds as many records as the page sizes add up to.          *)
(***************************************************************************)
C1_StopsAtFirstEmptyPage ==
    /\ \A i \in 1..(Len(pages) - 1) : pages[i] > 0
    /\ pc = "sleep" => loop = (Last(pages) > 0)
    /\ pc = "query" => (pages = <<>> \/ Last(pages) > 0)
    /\ LoopEnded =>
          /\ pages # <<>>
          /\ Last(pages) = 0
          /\ Len(requests) = Len(pages)
          /\ NoRepeatedIdentifier => Cardinality(DOMAIN prods_all) = SumSeq(pages)

\* witness of C1: pages of sizes 1, 1, 0: three requests, two records
C1_Witness ==
    /\ LoopEnded
    /\ pages = <<1, 1, 0>>
    /\ Len(requests) = 3
    /\ Cardinality(DOMAIN prods_all) = 2

(***************************************************************************)
(* C2: when scrape is called with ingest_missing and create_only both      *)
(* true, no catalog page is requested, no existence probe is issued and no *)
(* artifact is written.                                                    *)
(***************************************************************************)
C2_ConflictBeforeAnyNetworkCall ==
    (ingest_missing /\ create_only) =>
        /\ requests = <<>>
        /\ probes = <<>>
        /\ tries = 0
        /\ created = <<>>

(***************************************************************************)
(* C3: when the existence phase has run to its end without raising,        *)
(* prods_found and prods_missing are disjoint and together hold exactly    *)
(* the keys of prods_all.                                                  *)
(***************************************************************************)
ExistsEnded == pc \in {"report", "options", "create", "ingest", "done"}

C3_FoundMissingPartition ==
    ExistsEnded =>
        /\ Range(prods_found) \cap Range(prods_missing) = {}
        /\ Range(prods_found) \cup Range(prods_missing) = DOMAIN prods_all

(***************************************************************************)
(* C4: a probe answers found (200), missing (404) or error: an identifier  *)
(* whose probe returned a response is in prods_found or in prods_missing,  *)
(* or its probe was the last one and the run has raised; after such an     *)
(* error there is no report and no artifact.                               *)
(***************************************************************************)
C4_OtherStatusAborts ==
    \A i \in 1..Len(probes) :
        probes[i] \notin (Range(prods_found) \cup Range(prods_missing)) =>
            /\ i = Len(probes)
            /\ pc \in {"raised", "failed"}
            /\ report = None
            /\ created = <<>>
            /\ ingested = <<>>

(***************************************************************************)
(* C5: every accumulated Sentinel-1A record has                            *)
(* trackNumber = (orbitNumber - 73) mod 175 + 1, every Sentinel-1B record  *)
(* trackNumber = (orbitNumber - 27) mod 175 + 1; an entry of either        *)
(* platform that violates its formula raises the verification error, is    *)
(* never passed over and never accumulated, and an entry of another        *)
(* platform is accumulated with a track that obeys neither formula.        *)
(***************************************************************************)
C5_TrackFormula ==
    /\ \A id \in DOMAIN prods_all :
          LET met == prods_all[id].met IN
          /\ met["platform"] = Sentinel1A =>
                met["trackNumber"] = ((met["orbitNumber"] - 73) % 175) + 1
          /\ met["platform"] = Sentinel1B =>
                met["trackNumber"] = ((met["orbitNumber"] - 27) % 175) + 1
    /\ (pc \in {"raised", "failed"} /\ idx <= Len(entries)
            /\ entries[idx] \in {EntryBadA, EntryBadB}) =>
          /\ err \in {Some("RuntimeError: Failed to verify S1A relative orbit number and track number."),
                      Some("RuntimeError: Failed to verify S1B relative orbit number and track number.")}
          /\ \A id \in DOMAIN prods_all : prods_all[id].met["title"] # entries[idx]["title"]
    /\ \A i \in 1..Len(entries) :
          (entries[i] \in {EntryBadA, EntryBadB} /\ pc \notin {"raised", "failed"})
              => i >= idx
    /\ \A i \in 1..Len(entries) :
          (Has(entries[i], "title") /\ entries[i]["title"] = EntryC["title"] /\ i < idx) =>
              /\ Has(prods_all, AcqPrefix \o EntryC["title"])
              /\ prods_all[AcqPrefix \o EntryC["title"]].met["trackNumber"] = 9
              /\ prods_all[AcqPrefix \o EntryC["title"]].met["orbitNumber"] = 28

\* witness of C5: a Sentinel-1A record with an orbit below 73, a Sentinel-1B
\* record, and the run has gone on to the existence phase
C5_Witness ==
    /\ \E id \in DOMAIN prods_all :
          /\ prods_all[id].met["platform"] = Sentinel1A
          /\ prods_all[id].met["orbitNumber"] = 5
          /\ prods_all[id].met["trackNumber"] = 108
    /\ \E id \in DOMAIN prods_all :
          /\ prods_all[id].met["platform"] = Sentinel1B
          /\ prods_all[id].met["trackNumber"] = 2
    /\ LoopEnded

(***************************************************************************)
(* C6: an entry whose normalization fails aborts the run: the step that    *)
(* meets it raises and changes neither the accumulator nor the buckets,    *)
(* and once raised the failing entry and the entries after it are left     *)
(* unprocessed, the buckets hold only the entries before it, no further    *)
(* page was requested, no probe was issued, and there is no report and no  *)
(* artifact.                                                               *)
(***************************************************************************)
NormalizationErrors ==
    {"ValueError", "KeyError: int", "KeyError: link", "KeyError: str", "KeyError: date",
     "KeyError: title", "KeyError: footprint", "WKTReadingError",
     "RuntimeError: Failed to recognize orbit direction",
     "RuntimeError: Failed to extract iplatform",
     "KeyError: trackNumber/orbitNumber",
     "RuntimeError: Failed to verify S1A relative orbit number and track number.",
     "RuntimeError: Failed to verify S1B relative orbit number and track number."}
NormalizationFailed == pc \in {"raised", "failed"} /\ err[1] \in NormalizationErrors
BucketTotal == Len(AllBuckets)
Unprocessed(e) == Has(e, "int")

C6_AbortedState ==
    NormalizationFailed =>
        /\ idx <= Len(entries)
        /\ \A j \in idx..Len(entries) : Unprocessed(entries[j])
        /\ ~massage_result(entries[idx]).ok
        /\ BucketTotal = (offset - Len(entries)) + (idx - 1)
        /\ Len(requests) = Len(pages)
        /\ probes = <<>> /\ tries = 0 /\ todo = {}
        /\ report = None /\ created = <<>> /\ ingested = <<>>

C6_FailingStep ==
    (pc = "massage" /\ ~massage_result(Met).ok) =>
        /\ pc' = "raised"
        /\ err' = Some(massage_result(Met).err)
        /\ UNCHANGED <<prods_all, ids_by_track, idx, requests, probes>>

\* C6: the aborted state always, and the failing step always
C6_NormalizationFailureAborts == [](C6_AbortedState) /\ [][C6_FailingStep]_vars

\* witness of C6: the second entry of a page failed after the first was accumulated
C6_Witness ==
    /\ NormalizationFailed
    /\ idx = 2
    /\ Cardinality(DOMAIN prods_all) = 1
    /\ pc = "failed"

(***************************************************************************)
(* C7: the downstream action follows the mode.  With neither flag nothing  *)
(* is created or ingested; with create_only the artifacts created are the  *)
(* identifiers of prods_missing, in order and once each, all of them when  *)
(* the run ends, and nothing is ingested; with ingest_missing the same     *)
(* identifiers are created and each is then handed to ingest.  No          *)
(* identifier of prods_found is acted on, and nothing is acted on before   *)
(* every probe has finished.                                               *)
(***************************************************************************)
C7_ModeSelectsAction ==
    /\ (~ingest_missing /\ ~create_only) => (created = <<>> /\ ingested = <<>>)
    /\ (ingest_missing /\ create_only) => (created = <<>> /\ ingested = <<>>)
    /\ (create_only /\ ~ingest_missing) =>
          /\ ingested = <<>>
          /\ IsPrefix(created, prods_missing)
          /\ pc = "done" => created = prods_missing
    /\ (ingest_missing /\ ~create_only) =>
          /\ IsPrefix(created, prods_missing)
          /\ IsPrefix(ingested, created)
          /\ Len(created) <= Len(ingested) + 1
          /\ pc = "done" => (created = prods_missing /\ ingested = prods_missing)
    /\ \A i \in 1..Len(created) :
          /\ created[i] \notin Range(prods_found)
          /\ Count(created[i], created) = 1
    /\ created # <<>> => (todo = {} /\ report # None /\ Len(probes) = Cardinality(DOMAIN prods_all))

\* witness of C7: an ingest run ended with one identifier found and one missing
C7_Witness ==
    /\ pc = "done"
    /\ ingest_missing
    /\ Len(prods_found) = 1
    /\ Len(prods_missing) = 1
    /\ ingested = prods_missing
    /\ created = prods_missing

(***************************************************************************)
(* C8: a page with its single entry as a lone object ends in the same      *)
(* state as the page with that entry in a one-element list: the entry list *)
(* is that one entry, the offset has grown by one, the loop goes on, and   *)
(* once the entry is processed the accumulator and the buckets are those   *)
(* before the page with the one record added.                              *)
(***************************************************************************)
SingleEntryPageOutcome(e) ==
    LET before == page_start[1]
        met == massage_result(e).val
        ds == get_dataset_json(met, Version).val
    IN /\ Len(entries) = 1
       /\ offset = before.offset + 1
       /\ loop = TRUE
       /\ pc = "massage" =>
             /\ entries = <<e>>
             /\ idx = 1
             /\ prods_all = before.prods_all
             /\ ids_by_track = before.ids_by_track
       /\ pc = "sleep" =>
             /\ entries = <<met>>
             /\ prods_all = Put(before.prods_all, met["data_product_name"],
                                [met |-> met, ds |-> ds])
             /\ Has(ids_by_track, met["trackNumber"])
             /\ Last(ids_by_track[met["trackNumber"]]) = met["data_product_name"]
             /\ BucketTotal = before.offset + 1

\* C8: the lone object and the one-element list have the same outcome
C8_LoneObjectAsOneElementList ==
    \A e \in Catalog :
        (pc \in {"massage", "sleep"} /\ raw_entries \in {LoneEntry(e), ListEntry(<<e>>)})
            => SingleEntryPageOutcome(e)

\* witness of C8: a lone object has been processed as the second page
C8_Witness ==
    /\ pc = "sleep"
    /\ raw_entries.kind = "dict"
    /\ offset = 2
    /\ Cardinality(DOMAIN prods_all) = 2

(***************************************************************************)
(* C9: ASCENDING maps to asc, DESCENDING to dsc, a third value raises, and *)
(* every record in the accumulator has a direction, asc or dsc.            *)
(***************************************************************************)
C9_DirectionAlwaysAscOrDsc ==
    /\ \A id \in DOMAIN prods_all :
          /\ Has(prods_all[id].met, "direction")
          /\ prods_all[id].met["direction"] \in {asc, dsc}
    /\ (pc \in {"raised", "failed"} /\ idx <= Len(entries) /\ entries[idx] = EntryBadDir)
          => err = Some("RuntimeError: Failed to recognize orbit direction")

(***************************************************************************)
(* C10: the accumulator is keyed by identifier and the last write wins:    *)
(* the step that accumulates an entry leaves under its identifier the      *)
(* record and descriptor of that entry, whether or not the identifier was  *)
(* there before, leaves every other key as it was, and does not raise.     *)
(***************************************************************************)
C10_AccumulateStep ==
    (pc = "massage" /\ pc' \in {"massage", "sleep"}) =>
        LET met == massage_result(Met).val
            id == met["data_product_name"]
        IN /\ DOMAIN prods_all' = (DOMAIN prods_all) \cup {id}
           /\ prods_all'[id].met = met
           /\ prods_all'[id].ds = get_dataset_json(met, Version).val
           /\ \A other \in (DOMAIN prods_all) \ {id} : prods_all'[other] = prods_all[other]
           /\ err' = None

C10_LatestInPlace ==
    (pc \in {"massage", "sleep"} /\ idx > 1) =>
        /\ Has(prods_all, entries[idx - 1]["data_product_name"])
        /\ prods_all[entries[idx - 1]["data_product_name"]].met = entries[idx - 1]

\* C10: the latest record is in place always, and every accumulating step overwrites
C10_LastWriteWins == [](C10_LatestInPlace) /\ [][C10_AccumulateStep]_vars

\* witness of C10: the identifier of EntryA was accumulated twice, first on track 1,
\* and the accumulator holds the later record
C10_Witness ==
    /\ Has(ids_by_track, 1) /\ Has(ids_by_track, 108)
    /\ ids_by_track[1] = <<AcqPrefix \o EntryA["title"]>>
    /\ ids_by_track[108] = <<AcqPrefix \o EntryA["title"]>>
    /\ DOMAIN prods_all = {AcqPrefix \o EntryA["title"]}
    /\ prods_all[AcqPrefix \o EntryA["title"]].met["orbitNumber"] = 5
    /\ pc = "done"

(***************************************************************************)
(* C11: every entry that normalizes appends its identifier to the bucket   *)
(* of its trackNumber, already accumulated or not.  At every point of the  *)
(* query loop, and after it, the bucket lengths add up to the number of    *)
(* entries processed so far, which is at least the number of keys of       *)
(* prods_all and equal to it exactly when no identifier has repeated; the  *)
(* per-track counts of the report add up to that sum, its "total on        *)
(* apihub" is the number of keys.                                          *)
(***************************************************************************)
\* a point of the query loop: before a request, inside the for loop, at the sleep
InLoop == pc \in {"query", "massage", "sleep"}
\* the entries the for loop of line 228 has gone through, over all pages
EntriesProcessed == IF pc = "massage" THEN (offset - Len(entries)) + (idx - 1) ELSE offset
KeyCount == Cardinality(DOMAIN prods_all)
RECURSIVE SumOver(_, _)
SumOver(f, S) ==
    IF S = {} THEN 0
    ELSE LET t == CHOOSE x \in S : TRUE IN f[t] + SumOver(f, S \ {t})

C11_BucketInvariant ==
    /\ (InLoop \/ LoopEnded) =>
          /\ BucketTotal = EntriesProcessed
          /\ BucketTotal >= KeyCount
          /\ (BucketTotal = KeyCount) <=> NoRepeatedIdentifier
          /\ Range(AllBuckets) = DOMAIN prods_all
    /\ report # None =>
          /\ SumOver(report[1].count_by_track, DOMAIN report[1].count_by_track) = BucketTotal
          /\ report[1].total_on_apihub = KeyCount

C11_AppendStep ==
    (pc = "massage" /\ pc' \in {"massage", "sleep"}) =>
        LET met == massage_result(Met).val
            id == met["data_product_name"]
            t == met["trackNumber"]
        IN /\ Has(ids_by_track', t)
           /\ ids_by_track'[t] =
                 (IF Has(ids_by_track, t) THEN ids_by_track[t] ELSE <<>>) \o <<id>>
           /\ \A u \in (DOMAIN ids_by_track) \ {t} :
                 Has(ids_by_track', u) /\ ids_by_track'[u] = ids_by_track[u]
           /\ BucketTotal' - KeyCount' =
                 (BucketTotal - KeyCount) + (IF Has(prods_all, id) THEN 1 ELSE 0)

C12_CursorInvariant ==
    /\ \A i \in 1..Len(requests) : requests[i] = SumSeq(SubSeq(pages, 1, i - 1))
    /\ requests # <<>> => requests[1] = 0
    /\ offset = SumSeq(pages)
    /\ Len(pages) <= Len(requests)
    /\ Len(requests) <= Len(pages) + 1

C12_CursorStep ==
    /\ offset' >= offset
    /\ requests' # requests =>
          /\ pc = "query"
          /\ Len(requests) = Len(pages)
          /\ requests' = Append(requests, offset)
          /\ Len(pages') <= Len(pages) + 1

\* C12: the cursor is the running count always, and every request is sent in turn
C12_SequentialPagination == [](C12_CursorInvariant) /\ [][C12_CursorStep]_vars

\* witness of C12: a page of two entries, then the request that skips 2 got the empty page
C12_Witness ==
    /\ requests = <<0, 2>>
    /\ pages = <<2, 0>>
    /\ pc = "exists"

(***************************************************************************)
(* C13: the declared total is taken from the first page only and does not  *)
(* terminate the loop.  total_results_expected is unset until the first    *)
(* page is received and set from then on, no later page changes it, and    *)
(* whatever the total, 0 or more than the catalog returns, the loop goes   *)
(* on after a page exactly when the page had entries and is left only      *)
(* behind an empty page, the requests being those the page sizes decide.   *)
(***************************************************************************)
DeclaredTotals == {Some(ParseInt(total)) : total \in Totals}

C13_TotalInvariant ==
    /\ pages = <<>> => total_results_expected = None
    /\ pages # <<>> => total_results_expected \in DeclaredTotals
    /\ \A declared \in DeclaredTotals :
          total_results_expected = declared =>
              /\ pc = "sleep" => (loop <=> Last(pages) > 0)
              /\ (pc = "query" /\ pages # <<>>) => Last(pages) > 0
              /\ LoopEnded => Last(pages) = 0
              /\ \A i \in 1..(Len(pages) - 1) : pages[i] > 0
              /\ \A i \in 1..Len(requests) : requests[i] = SumSeq(SubSeq(pages, 1, i - 1))

C13_TotalStep ==
    /\ total_results_expected # None => total_results_expected' = total_results_expected
    /\ (pages = <<>> /\ pages' # <<>>) => total_results_expected' # None

\* C13: the total does not steer the loop, and once set it is never changed
C13_TotalFromFirstPageOnly == [](C13_TotalInvariant) /\ [][C13_TotalStep]_vars

\* witness of C13: a declared total of 0, and yet two non-empty pages were fetched
\* and a third request made
C13_Witness ==
    /\ total_results_expected = Some(0)
    /\ pages = <<1, 1, 0>>
    /\ requests = <<0, 1, 2>>
    /\ pc = "done"

(***************************************************************************)
(* C14: a page response with an error status aborts the run.  The step     *)
(* that receives it raises and leaves the accumulator, the buckets and the *)
(* entry list as they were; from then on no request is sent, so the status *)
(* is not retried; and in the aborted run the buckets hold the entries of  *)
(* the earlier pages only, the failing request is the last one, no probe   *)
(* was issued, and there is no report and no artifact.                     *)
(***************************************************************************)
PageHTTPErrors == {"HTTPError " \o ToString(status) : status \in PageErrorStatuses}
\* the run was aborted by a page request that got no page
QueryFailed == pc \in {"raised", "failed"} /\ Len(requests) = Len(pages) + 1

C14_AbortedState ==
    (QueryFailed /\ err[1] \in PageHTTPErrors) =>
        /\ Last(requests) = offset
        /\ offset = SumSeq(pages)
        /\ BucketTotal = SumSeq(pages)
        /\ KeyCount <= SumSeq(pages)
        /\ page_start = NoSnapshot
        /\ probes = <<>> /\ tries = 0 /\ todo = {}
        /\ prods_found = <<>> /\ prods_missing = <<>>
        /\ report = None /\ created = <<>> /\ ingested = <<>>

C14_FailingStep ==
    /\ (pc = "query" /\ requests' # requests /\ pages' = pages) =>
          /\ pc' = "raised"
          /\ err' \in {Some(e) : e \in PageHTTPErrors \cup {"ConnectionError"}}
          /\ UNCHANGED <<prods_all, ids_by_track, queryVars, probes, created, ingested>>
    /\ pc \in {"raised", "failed"} => UNCHANGED <<requests, pages, probes, created>>

C15_ProbeInvariant ==
    /\ tries \in 0..8
    /\ tries = 8 => (pc \in {"raised", "failed"} /\ err = Some("RequestException"))
    /\ (pc = "exists" /\ tries > 0) => (acq_id # None /\ acq_id[1] \in todo)
    /\ \A i \in 1..Len(probes) :
          /\ Count(probes[i], probes) = 1
          /\ probes[i] \in DOMAIN prods_all
          /\ probes[i] \notin todo
    /\ ExistsEnded => (Range(probes) = DOMAIN prods_all /\ Len(probes) = KeyCount)

C15_ProbeStep ==
    /\ probes' # probes =>
          /\ pc = "exists"
          /\ \E id \in todo :
                /\ probes' = Append(probes, id)
                /\ todo' = todo \ {id}
                /\ tries > 0 => acq_id = Some(id)
          /\ tries' = 0
    /\ (pc = "exists" /\ probes' = probes) =>
          /\ tries' = tries + 1
          /\ todo' = todo
          /\ acq_id' # None /\ acq_id'[1] \in todo
          /\ tries > 0 => acq_id' = acq_id
          /\ tries + 1 < 8 => (pc' = "exists" /\ err' = None)
          /\ tries + 1 = 8 => (pc' = "raised" /\ err' = Some("RequestException"))
          /\ UNCHANGED <<prods_found, prods_missing>>

\* C15: one response for each identifier, and at most 8 attempts to get it
C15_OneResponseWithinEightTries == [](C15_ProbeInvariant) /\ [][C15_ProbeStep]_vars

\* witness of C15: one identifier was answered, the probe for the second one raised
\* eight times and the run was aborted
C15_Witness ==
    /\ pc = "failed"
    /\ tries = 8
    /\ err = Some("RequestException")
    /\ Len(probes) = 1
    /\ Cardinality(todo) = 1

(***************************************************************************)
(* C16: the accumulator only grows in the query loop and is read-only      *)
(* from the end of the loop to the end of the report.  No step removes a   *)
(* key of prods_all or an element of a bucket; a step that leaves the      *)
(* loop, a step of the existence phase and the report step leave prods_all *)
(* and ids_by_track, records included, as they were; and the report step   *)
(* leaves prods_found and prods_missing as they were, the identifiers it   *)
(* lists being a sorted copy.                                              *)
(***************************************************************************)
C16_Step ==
    /\ DOMAIN prods_all \subseteq DOMAIN prods_all'
    /\ \A t \in DOMAIN ids_by_track :
          Has(ids_by_track', t) /\ IsPrefix(ids_by_track[t], ids_by_track'[t])
    /\ (InLoop /\ LoopEnded') => UNCHANGED <<prods_all, ids_by_track>>
    /\ pc \in {"exists", "report"} => UNCHANGED <<prods_all, ids_by_track>>
    /\ pc = "report" =>
          /\ UNCHANGED <<prods_found, prods_missing>>
          /\ report' = Some(ReportOf(prods_all', ids_by_track', prods_missing'))

C16_ReportCopy ==
    (pc = "options" /\ report # None) =>
        /\ report[1].missing_ids = Sorted(prods_missing)
        /\ report[1].missing_products = Len(prods_missing)
        /\ Len(prods_found) + Len(prods_missing) <= Len(probes)

\* C16: every step keeps what was accumulated, and the phases after the loop only read
C16_AccumulatorGrowsThenReadOnly == [][C16_Step]_vars /\ [](C16_ReportCopy)

\* witness of C16: the report was made from two missing identifiers that were
\* probed in descending order, and prods_missing still has them in that order
C16_Witness ==
    /\ pc = "options"
    /\ report # None
    /\ Len(prods_missing) = 2
    /\ prods_missing # Sorted(prods_missing)
    /\ report[1].missing_ids = Sorted(prods_missing)

(***************************************************************************)
(* C17: there is a pause between two successive page requests.  A request  *)
(* is sent only when as many sleeps have been taken as pages were          *)
(* requested before it, and each sleep is taken when every entry of the    *)
(* page just received has been processed.                                  *)
(***************************************************************************)
C17_PauseInvariant ==
    /\ Len(requests) <= sleeps + 1
    /\ sleeps <= Len(pages)
    /\ pc = "query" => sleeps = Len(requests)

C17_PauseStep ==
    /\ requests' # requests =>
          /\ sleeps = Len(requests)
          /\ sleeps' = sleeps
    /\ sleeps' # sleeps =>
          /\ sleeps' = sleeps + 1
          /\ sleeps = Len(pages) - 1
          /\ requests' = requests
          /\ idx = Len(entries) + 1
          /\ BucketTotal = offset

\* C17: the sleeps keep up with the requests, and each follows the page's processing
C17_SleepBetweenPageRequests == [](C17_PauseInvariant) /\ [][C17_PauseStep]_vars

\* witness of C17: three requests were sent and two sleeps taken before the third
C17_Witness ==
    /\ Len(requests) = 3
    /\ sleeps = 2
    /\ pc = "exists"

(***************************************************************************)
(* C18: every error raised inside scrape reaches the top level, is         *)
(* appended to the two error logs and is raised again.  An error is on its *)
(* way exactly in the raised and failed states; a new error always comes   *)
(* with the raised state; the only step from the raised state appends the  *)
(* error to both logs and ends the process as failed; the error is never   *)
(* dropped or replaced, a failed process takes no further step, and the    *)
(* logs are empty in every state that is not failed, the end of a normal   *)
(* run included.                                                           *)
(***************************************************************************)
FatalErrors ==
    NormalizationErrors \cup PageHTTPErrors
        \cup {"HTTPError " \o ToString(status) : status \in ProbeOtherStatuses}
        \cup {"KeyError: dataset", "KeyError: trackNumber", "ConnectionError",
              "RequestException", "IOError", "IngestError",
              "RuntimeError: Cannot specify ingest_missing=True and create_only=True."}

C18_ErrorInvariant ==
    /\ err # None <=> pc \in {"raised", "failed"}
    /\ err # None => err[1] \in FatalErrors
    /\ pc = "failed" => (errlog.error = <<err[1]>> /\ errlog.traceback = <<err[1]>>)
    /\ pc # "failed" => (errlog.error = <<>> /\ errlog.traceback = <<>>)

C18_ErrorStep ==
    /\ err' # err => (err = None /\ pc # "raised" /\ pc' = "raised")
    /\ pc = "raised" =>
          /\ pc' = "failed"
          /\ errlog'.error = Append(errlog.error, err[1])
          /\ errlog'.traceback = Append(errlog.traceback, err[1])
    /\ pc # "raised" => errlog' = errlog
    /\ pc \notin {"failed", "done"}

\* C18: errors and logs agree always, and every step hands the error on
C18_FatalErrorsLoggedAndReraised == [](C18_ErrorInvariant) /\ [][C18_ErrorStep]_vars

\* witness of C18: ingest raised after one artifact was written, and the process
\* ended failed with the error in both logs
C18_Witness ==
    /\ pc = "failed"
    /\ err = Some("IngestError")
    /\ errlog.error = <<"IngestError">>
    /\ errlog.traceback = <<"IngestError">>
    /\ Len(created) = 1
====
